---- MODULE Spec2Model ----
(***************************************************************************)
(* Model of route-app (src/app.py): a Streamlit script that keeps a list   *)
(* of destinations in the session state, extracts addresses from uploaded  *)
(* spreadsheets, asks the Directions provider for an optimized round trip  *)
(* and builds an embed URL for the result.                                 *)
(*                                                                         *)
(* Text is modelled as a sequence of characters; a character is a TLA+     *)
(* string token.  The Japanese characters the program tests for are        *)
(* written in romanised form, one token per character:                     *)
(*   "to" 都  "dou" 道  "fu" 府  "ken" 県  "shi" 市  "ku" 区  "machi" 町     *)
(*   "chou" 丁  "me" 目  "ban" 番  "chi" 地                                  *)
(* One step of the state machine is one run of the script, from its first  *)
(* line to its last line or to the st.rerun() that cuts it short, preceded *)
(* by the on_click callback of the widget event that started the run.      *)
(***************************************************************************)
EXTENDS Integers, Sequences, FiniteSets, TLC

\* ------------------------------------------------------------------------
\* Bounds of the model
\* ------------------------------------------------------------------------
MaxDest == 2      \* appends are explored while the list holds at most this many entries
MaxDelLen == 2    \* every delete button is explored on a list of at most this many entries
MaxCells == 4     \* a sheet fed to the extractor has at most this many cells
MaxLegs == 2      \* a provider response fed to the requester has at most this many legs
MaxSegs == 3      \* a segment list fed to the map link builder has at most this many

\* ------------------------------------------------------------------------
\* Program constants
\* ------------------------------------------------------------------------
MaxWaypoints == 23    \* the cap tested by the upload branch and the confirm button
MinLen == 5           \* a cell is a candidate only if len(cell.value) > 5

\* Python values that may be None are records, so that they compare with one
\* another: None, a list [list |-> items], a summary, a URL.
None == [none |-> TRUE]        \* Python's None
Absent == [absent |-> TRUE]    \* a key that is not in st.session_state
List(items) == [list |-> items]
EmptyStr == << >>              \* Python's ""

\* ------------------------------------------------------------------------
\* Text helpers
\* ------------------------------------------------------------------------
\* kw in s, Python's substring test
Contains(s, kw) ==
  \E i \in 1..(Len(s) - Len(kw) + 1) : SubSeq(s, i, i + Len(kw) - 1) = kw

RECURSIVE Join(_, _)
\* sep.join(parts)
Join(parts, sep) ==
  IF parts = << >> THEN << >>
  ELSE IF Len(parts) = 1 THEN parts[1]
  ELSE parts[1] \o <<sep>> \o Join(Tail(parts), sep)

\* Characters requests.utils.quote leaves alone (letters, digits, "_.-~" and
\* the default safe character "/"), as far as the model's texts use them.
Unreserved == {"a", "b", "c", "1", "2", "5", "-", "/"}

\* The percent-encoding of the other characters the model's texts use
\* (UTF-8 bytes, one %XX triple per byte).
QuoteChar(c) ==
  CASE c \in Unreserved -> <<c>>
    [] c = " "    -> <<"%", "2", "0">>
    [] c = "|"    -> <<"%", "7", "C">>
    [] c = "%"    -> <<"%", "2", "5">>
    [] c = "&"    -> <<"%", "2", "6">>
    [] c = "shi"  -> <<"%", "E", "5", "%", "B", "8", "%", "8", "2">>
    [] c = "ku"   -> <<"%", "E", "5", "%", "8", "C", "%", "B", "A">>

Encoded == {" ", "|", "%", "&", "shi", "ku"}

RECURSIVE quote(_)
\* requests.utils.quote(text)
quote(text) ==
  IF text = << >> THEN << >> ELSE QuoteChar(Head(text)) \o quote(Tail(text))

IsPrefix(p, s) == Len(p) <= Len(s) /\ SubSeq(s, 1, Len(p)) = p

RECURSIVE unquote(_)
\* urllib.parse.unquote(text): what a reader of the URL decodes
unquote(text) ==
  IF text = << >> THEN << >>
  ELSE IF Head(text) = "%" /\ \E c \in Encoded : IsPrefix(QuoteChar(c), text)
    THEN LET c == CHOOSE d \in Encoded : IsPrefix(QuoteChar(d), text)
         IN <<c>> \o unquote(SubSeq(text, Len(QuoteChar(c)) + 1, Len(text)))
    ELSE <<Head(text)>> \o unquote(Tail(text))

\* ------------------------------------------------------------------------
\* open_in_Maps (src/app.py 10-30)
\* ------------------------------------------------------------------------
\* A plausible slip: optimized_segments[1:] in place of optimized_segments[:-1].
WaypointsOf_SkipFirst(optimized_segments) ==
  [i \in 1..(Len(optimized_segments) - 1) |-> optimized_segments[i + 1].to]

\* [segment['to'] for segment in optimized_segments[:-1]]
WaypointsOf(optimized_segments) ==
  [i \in 1..(Len(optimized_segments) - 1) |-> optimized_segments[i].to]

\* The URL is modelled by its three route parameters; quote() encodes "&"
\* and "=", so no parameter can run into the next one.
open_in_Maps(origin, optimized_segments) ==
  IF optimized_segments = << >> THEN None
  ELSE LET start_point == optimized_segments[1].from
           waypoints == WaypointsOf(optimized_segments)
           final_destination == optimized_segments[Len(optimized_segments)].to
       IN [origin |-> quote(start_point),
           destination |-> quote(final_destination),
           waypoints |-> quote(Join(waypoints, "|"))]

\* ------------------------------------------------------------------------
\* read_addresses_from_excel (src/app.py 32-46)
\* ------------------------------------------------------------------------
\* A cell value is text [t |-> "str", v |-> characters], a number
\* [t |-> "int", v |-> n] or empty [t |-> "none", v |-> 0].
Keywords == << <<"to">>, <<"dou">>, <<"fu">>, <<"ken">>, <<"shi">>, <<"ku">>,
               <<"machi">>, <<"chou", "me">>, <<"ban", "chi">> >>

\* A plausible slip: a text of exactly 5 characters is a candidate too.
IsCandidate_AtLeast(cell) == cell.t = "str" /\ Len(cell.v) >= MinLen

\* isinstance(cell.value, str) and len(cell.value) > 5
IsCandidate(cell) == cell.t = "str" /\ Len(cell.v) > MinLen

\* any(keyword in cell.value for keyword in [...])
HasKeyword(value) == \E k \in 1..Len(Keywords) : Contains(value, Keywords[k])

RECURSIVE ScanRow(_, _)
\* for cell in row: ... addresses.append(cell.value)
ScanRow(row, addresses) ==
  IF row = << >> THEN addresses
  ELSE ScanRow(Tail(row),
               IF IsCandidate(Head(row)) /\ HasKeyword(Head(row).v)
                 THEN Append(addresses, Head(row).v)
                 ELSE addresses)

RECURSIVE ScanRows(_, _)
\* for row in sheet.iter_rows(): ...
ScanRows(rows, addresses) ==
  IF rows = << >> THEN addresses
  ELSE ScanRows(Tail(rows), ScanRow(Head(rows), addresses))

\* A file is [ok |-> whether openpyxl can load it, rows |-> the active sheet].
\* The result is [value |-> List(addresses) or None, msgs |-> the messages
\* shown].
read_addresses_from_excel(file_content) ==
  IF file_content.ok
    THEN [value |-> List(ScanRows(file_content.rows, << >>)), msgs |-> {}]
    ELSE [value |-> None, msgs |-> {"read_failed"}]

\* ------------------------------------------------------------------------
\* get_optimized_route_data (src/app.py 48-93)
\* ------------------------------------------------------------------------
\* Python's round(n / d) for integers n >= 0, d > 0: to the nearest integer,
\* a tie to the even one.  (n / d is a correctly rounded double and a tie
\* x.5 is a double, so the float computation agrees with the exact one.)
RoundDiv(n, d) ==
  LET q == n \div d
      r == n % d
  IN IF 2 * r < d THEN q
     ELSE IF 2 * r > d THEN q + 1
     ELSE IF q % 2 = 0 THEN q ELSE q + 1

RECURSIVE SumDistance(_)
\* sum(leg['distance']['value'] for leg in legs)
SumDistance(legs) ==
  IF legs = << >> THEN 0 ELSE Head(legs).distance + SumDistance(Tail(legs))

RECURSIVE SumDuration(_)
\* sum(leg['duration']['value'] for leg in legs)
SumDuration(legs) ==
  IF legs = << >> THEN 0 ELSE Head(legs).duration + SumDuration(Tail(legs))

\* One segment per leg.  Distances are kept in tenths of a kilometre: the
\* program's value is this integer divided by 10.
SegmentOf(leg) ==
  [from |-> leg.start_address,
   to |-> leg.end_address,
   distance |-> RoundDiv(leg.distance, 100),
   time |-> RoundDiv(leg.duration, 60)]

RECURSIVE SumSegDistance(_)
\* the segments' rounded distances, added up
SumSegDistance(legs) ==
  IF legs = << >> THEN 0
  ELSE SegmentOf(Head(legs)).distance + SumSegDistance(Tail(legs))

\* A plausible slip: the totals as the sum of the rounded per-segment values.
TotalDistance_PerSegment(legs) == SumSegDistance(legs)

\* round((sum / 1000) * 10) / 10, in tenths of a kilometre
TotalDistance(legs) == RoundDiv(SumDistance(legs) * 10, 1000)

\* round(sum / 60)
TotalTime(legs) == RoundDiv(SumDuration(legs), 60)

\* The provider's answer is [kind |-> "transport_error"] (requests raises a
\* RequestException) or [kind |-> "json", status |-> ..., legs |-> ...].
\* The result is [value |-> the summary or None, msgs |-> the messages shown,
\* requested |-> whether requests.get was called].
get_optimized_route_data(origin, destinations, response) ==
  IF destinations = << >>
    THEN [value |-> None, msgs |-> {}, requested |-> FALSE]
  ELSE IF response.kind = "transport_error"
    THEN [value |-> None, msgs |-> {"request_error"}, requested |-> TRUE]
  ELSE IF response.status = "OK"
    THEN [value |-> [total_distance |-> TotalDistance(response.legs),
                     total_time |-> TotalTime(response.legs),
                     segments |-> [i \in 1..Len(response.legs) |->
                                     SegmentOf(response.legs[i])],
                     Maps_result |-> response.legs],
          msgs |-> {},
          requested |-> TRUE]
  ELSE [value |-> None, msgs |-> {"route_failed"}, requested |-> TRUE]

\* ------------------------------------------------------------------------
\* The session: st.session_state, the widgets' values, and the last run
\* ------------------------------------------------------------------------
VARIABLES
  destinations,          \* st.session_state.destinations
  optimized_route_data,  \* st.session_state.optimized_route_data
  map_url,               \* st.session_state.map_url
  new_dest_input,        \* st.session_state.new_dest_input (the text field)
  addresses_to_select,   \* st.session_state.addresses_to_select
  start_location,        \* the value of the start address field
  uploaded_file,         \* the file the uploader holds, or NoFile
  rerun,                 \* the last run ended in st.rerun()
  msgs,                  \* the messages the last run showed
  requested,             \* the last run called requests.get
  event,                 \* the widget event the last run handled
  call,                  \* the arguments of a function called on its own
  ret                    \* and what it returned

vars == <<destinations, optimized_route_data, map_url, new_dest_input,
          addresses_to_select, start_location, uploaded_file, rerun, msgs,
          requested, event, call, ret>>

fnVars == <<call, ret>>

\* Python's truth value of a list or None
Truthy(x) == x # None /\ x # Absent /\ x.list # << >>

\* ---- the inputs the session is explored with ----
NoFile == "NoFile"
Files == {"small", "big", "empty", "corrupt"}

Chars5 == <<"a", "b", "c", "1", "2">>

\* 24 different addresses
BigAddress(i) ==
  <<"shi", "-", "a", "b", Chars5[((i - 1) \div 5) + 1], Chars5[((i - 1) % 5) + 1]>>

Str(v) == [t |-> "str", v |-> v]
Num(n) == [t |-> "int", v |-> n]

SmallAddress1 == <<"to", "a", "ku", "1", "-", "2">>
SmallAddress2 == <<"a", "b", "c", "chou", "me", "1", "2">>

\* uploaded_file.getvalue() for each file of the exploration
FileContent(f) ==
  CASE f = "small" ->
         [ok |-> TRUE,
          rows |-> << <<Str(<<"a", "b", "c">>), Str(SmallAddress1)>>,
                      <<Num(12), Str(SmallAddress2)>> >>]
    [] f = "big" ->
         [ok |-> TRUE,
          rows |-> [i \in 1..(MaxWaypoints + 1) |-> <<Str(BigAddress(i))>>]]
    [] f = "empty" ->
         [ok |-> TRUE, rows |-> << <<Str(<<"a", "b", "c", "1", "2", "-">>), Num(7)>> >>]
    [] f = "corrupt" ->
         [ok |-> FALSE, rows |-> << >>]

TypedTexts == {EmptyStr, <<"c", "1">>}
DefaultStart == <<"shi", "ku", "1", "-", "2">>
StartTexts == {EmptyStr, DefaultStart}

Leg(a, b, m, s) ==
  [start_address |-> a, end_address |-> b, distance |-> m, duration |-> s]

PlaceA == <<"a", " ", "b">>
PlaceB == <<"shi", "/", "1">>
PlaceC == <<"|", "%", "2", "5">>

\* What the provider may answer to a request of the session
SessionResponses ==
  { [kind |-> "transport_error"],
    [kind |-> "json", status |-> "ZERO_RESULTS", legs |-> << >>],
    [kind |-> "json", status |-> "OK", legs |-> << >>],
    [kind |-> "json", status |-> "OK",
     legs |-> <<Leg(PlaceA, PlaceB, 1250, 90), Leg(PlaceB, PlaceA, 1250, 90)>>],
    [kind |-> "json", status |-> "OK",
     legs |-> <<Leg(PlaceA, PlaceC, 149, 29), Leg(PlaceC, PlaceB, 149, 29),
                Leg(PlaceB, PlaceA, 149, 29)>>] }

\* The delete buttons the exploration clicks: every button of a list of at
\* most MaxDelLen entries, the first button del_0 of a longer one
DeleteIndices(list) ==
  IF Len(list) <= MaxDelLen THEN 0..(Len(list) - 1) ELSE {0}

\* What the multiselect may hold when the confirm button is clicked: the
\* first k options, for k around the cap.
Selections(options) ==
  { SubSeq(options, 1, k) :
      k \in {0, 1, MaxWaypoints, MaxWaypoints + 1} \cap 0..Len(options) }

\* ------------------------------------------------------------------------
\* The script (src/app.py 95-249)
\* ------------------------------------------------------------------------
\* The session state the script reads and writes, as one value
Session ==
  [destinations |-> destinations,
   optimized_route_data |-> optimized_route_data,
   map_url |-> map_url,
   new_dest_input |-> new_dest_input,
   addresses_to_select |-> addresses_to_select]

\* A part of the script hands on the session state, the messages it showed,
\* whether it called the provider, and whether it ended in st.rerun().
Step(ss, shown, req, stop) ==
  [ss |-> ss, msgs |-> shown, requested |-> req, stop |-> stop]

\* on_click callback of the add button (119-124)
add_destination(ss) ==
  IF ss.new_dest_input # EmptyStr
    THEN [ss EXCEPT !.destinations = Append(@, ss.new_dest_input),
                    !.new_dest_input = EmptyStr]
    ELSE ss

\* on_click callback of the clear button (126-129)
clear_route_data(ss) ==
  [ss EXCEPT !.destinations = << >>,
             !.optimized_route_data = None,
             !.map_url = None]

\* file_content = BytesIO(uploaded_file.getvalue());
\* addresses_from_file = read_addresses_from_excel(file_content) (155-156),
\* for each file of the exploration
AddressesFromFile ==
  [f \in Files |-> read_addresses_from_excel(FileContent(f))]

\* A plausible slip: every extraction is appended, whatever its length.
UploadBranch_NoCap(ss, file) ==
  IF file = NoFile THEN Step(ss, {}, FALSE, FALSE)
  ELSE LET r == AddressesFromFile[file]
       IN IF Truthy(r.value)
            THEN Step([ss EXCEPT !.destinations = @ \o r.value.list],
                      r.msgs \cup {"added_from_file"}, FALSE, TRUE)
            ELSE Step(ss, r.msgs, FALSE, FALSE)

\* file uploader (153-165)
UploadBranch(ss, file) ==
  IF file = NoFile THEN Step(ss, {}, FALSE, FALSE)
  ELSE LET r == AddressesFromFile[file]
       IN IF Truthy(r.value)
            THEN IF Len(r.value.list) > MaxWaypoints
                   THEN Step([ss EXCEPT !.addresses_to_select = r.value],
                             r.msgs \cup {"over_cap_warning"}, FALSE, FALSE)
                   ELSE Step([ss EXCEPT !.destinations = @ \o r.value.list],
                             r.msgs \cup {"added_from_file"}, FALSE, TRUE)
            ELSE Step(ss, r.msgs, FALSE, FALSE)

\* destinations.pop(i)
Pop(list, i) == SubSeq(list, 1, i) \o SubSeq(list, i + 2, Len(list))

\* A plausible slip: a deletion also drops the computed route.
DeleteButtons_Invalidate(ss, ev) ==
  IF ev.type = "delete" /\ ev.i < Len(ss.destinations)
    THEN Step([ss EXCEPT !.destinations = Pop(@, ev.i),
                         !.optimized_route_data = None,
                         !.map_url = None], {}, FALSE, TRUE)
    ELSE Step(ss, {}, FALSE, FALSE)

\* destination list with its delete buttons (168-177); the button del_i
\* exists only for an index of the list.
DeleteButtons(ss, ev) ==
  IF ev.type = "delete" /\ ev.i < Len(ss.destinations)
    THEN Step([ss EXCEPT !.destinations = Pop(@, ev.i)], {}, FALSE, TRUE)
    ELSE Step(ss, {}, FALSE, FALSE)

\* selection expander and its confirm button (180-197)
SelectionExpander(ss, ev) ==
  IF Truthy(ss.addresses_to_select) /\ ev.type = "confirm"
    THEN LET selected_addresses == ev.selected
             warn == IF Len(selected_addresses) > MaxWaypoints
                       THEN {"select_warning"} ELSE {}
         IN IF Len(selected_addresses) <= MaxWaypoints
              THEN Step([ss EXCEPT !.destinations = @ \o selected_addresses,
                                   !.addresses_to_select = None],
                        warn \cup {"selected"}, FALSE, TRUE)
              ELSE Step(ss, warn \cup {"select_error"}, FALSE, FALSE)
    ELSE Step(ss, {}, FALSE, FALSE)

\* A plausible slip: a refused optimize attempt still drops the route.
OptimizeButton_ClearOnInvalid(ss, start, ev) ==
  IF ev.type # "optimize" THEN Step(ss, {}, FALSE, FALSE)
  ELSE IF start = EmptyStr \/ ss.destinations = << >>
    THEN Step([ss EXCEPT !.optimized_route_data = None], {"validation_error"},
              FALSE, FALSE)
  ELSE LET route_data ==
             get_optimized_route_data(start, ss.destinations, ev.response)
           s1 == [ss EXCEPT !.optimized_route_data = route_data.value]
       IN IF route_data.value # None
            THEN Step([s1 EXCEPT !.map_url =
                         open_in_Maps(start, route_data.value.segments)],
                      route_data.msgs \cup {"optimized"},
                      route_data.requested, TRUE)
            ELSE Step(s1, route_data.msgs, route_data.requested, FALSE)

\* optimize button (205-216)
OptimizeButton(ss, start, ev) ==
  IF ev.type # "optimize" THEN Step(ss, {}, FALSE, FALSE)
  ELSE IF start = EmptyStr \/ ss.destinations = << >>
    THEN Step(ss, {"validation_error"}, FALSE, FALSE)
  ELSE LET route_data ==
             get_optimized_route_data(start, ss.destinations, ev.response)
           s1 == [ss EXCEPT !.optimized_route_data = route_data.value]
       IN IF route_data.value # None
            THEN Step([s1 EXCEPT !.map_url =
                         open_in_Maps(start, route_data.value.segments)],
                      route_data.msgs \cup {"optimized"},
                      route_data.requested, TRUE)
            ELSE Step(s1, route_data.msgs, route_data.requested, FALSE)

\* b, run after a, unless a ended the run; the messages add up
Then(a, b) ==
  IF a.stop THEN a
  ELSE Step(b.ss, a.msgs \cup b.msgs, a.requested \/ b.requested, b.stop)

\* One run of the script for the event ev, from the session state ss the
\* callback left.  The result display (219-249) writes nothing.
ScriptRun(ss, start, file, ev) ==
  LET u == UploadBranch(ss, file)
      d == Then(u, DeleteButtons(u.ss, ev))
      c == Then(d, SelectionExpander(d.ss, ev))
  IN Then(c, OptimizeButton(c.ss, start, ev))

\* The run gets past the st.rerun() of the upload branch (165) and so to the
\* buttons below it; a click on a button the run does not reach is lost.
ReachesButtons(ss, file) == ~UploadBranch(ss, file).stop

\* The session after the run r for the event ev.  The exploration appends
\* only to a list of at most MaxDest entries.
Finish(r, ev) ==
  /\ Len(r.ss.destinations) > Len(destinations) => Len(destinations) <= MaxDest
  /\ destinations' = r.ss.destinations
  /\ optimized_route_data' = r.ss.optimized_route_data
  /\ map_url' = r.ss.map_url
  /\ new_dest_input' = r.ss.new_dest_input
  /\ addresses_to_select' = r.ss.addresses_to_select
  /\ rerun' = r.stop
  /\ msgs' = r.msgs
  /\ requested' = r.requested
  /\ event' = ev
  /\ UNCHANGED fnVars

NoEvent == [type |-> "none"]

NoCall == [fn |-> "none"]
Pending == [pending |-> TRUE]

\* The first run of a new session (106-116, 141-144): nothing stored, the
\* start field at its default, no file.
SessionInit ==
  /\ destinations = << >>
  /\ optimized_route_data = None
  /\ map_url = None
  /\ new_dest_input = EmptyStr
  /\ addresses_to_select = Absent
  /\ start_location = DefaultStart
  /\ uploaded_file = NoFile
  /\ rerun = FALSE
  /\ msgs = {}
  /\ requested = FALSE
  /\ event = [type |-> "init"]

Init == SessionInit /\ call = NoCall /\ ret = NoCall

\* The user types into the new-destination field (149).
TypeDestination ==
  \E text \in TypedTexts :
    /\ text # new_dest_input
    /\ Finish(ScriptRun([Session EXCEPT !.new_dest_input = text],
                        start_location, uploaded_file, NoEvent),
              [type |-> "type"])
    /\ UNCHANGED <<start_location, uploaded_file>>

\* The user clicks the add button (150).
ClickAdd ==
  /\ Finish(ScriptRun(add_destination(Session), start_location, uploaded_file,
                      NoEvent),
            [type |-> "add"])
  /\ UNCHANGED <<start_location, uploaded_file>>

\* The user clicks the clear button (200).
ClickClear ==
  /\ Finish(ScriptRun(clear_route_data(Session), start_location, uploaded_file,
                      NoEvent),
            [type |-> "clear"])
  /\ UNCHANGED <<start_location, uploaded_file>>

\* The user puts a file into the uploader (153).
Upload ==
  \E f \in Files :
    /\ f # uploaded_file
    /\ uploaded_file' = f
    /\ Finish(ScriptRun(Session, start_location, f, NoEvent), [type |-> "upload"])
    /\ UNCHANGED start_location

\* The user takes the file out of the uploader (153).
RemoveFile ==
  /\ uploaded_file # NoFile
  /\ uploaded_file' = NoFile
  /\ Finish(ScriptRun(Session, start_location, NoFile, NoEvent),
            [type |-> "remove"])
  /\ UNCHANGED start_location

\* The user clicks the delete button del_i (175).
ClickDelete ==
  \E i \in DeleteIndices(destinations) :
    /\ i < Len(destinations)
    /\ ReachesButtons(Session, uploaded_file)
    /\ Finish(ScriptRun(Session, start_location, uploaded_file,
                        [type |-> "delete", i |-> i]),
              [type |-> "delete", i |-> i])
    /\ UNCHANGED <<start_location, uploaded_file>>

\* The user clicks the confirm button of the selection expander (189).
ClickConfirm ==
  /\ Truthy(addresses_to_select)
  /\ ReachesButtons(Session, uploaded_file)
  /\ \E selected \in Selections(addresses_to_select.list) :
       Finish(ScriptRun(Session, start_location, uploaded_file,
                        [type |-> "confirm", selected |-> selected]),
              [type |-> "confirm", selected |-> selected])
  /\ UNCHANGED <<start_location, uploaded_file>>

\* The user clicks the optimize button (205); the provider answers.
ClickOptimize ==
  /\ ReachesButtons(Session, uploaded_file)
  /\ \E response \in SessionResponses :
       Finish(ScriptRun(Session, start_location, uploaded_file,
                        [type |-> "optimize", response |-> response]),
              [type |-> "optimize"])
  /\ UNCHANGED <<start_location, uploaded_file>>

\* The user edits the start address (141).
SetStartLocation ==
  \E text \in StartTexts :
    /\ text # start_location
    /\ start_location' = text
    /\ Finish(ScriptRun(Session, text, uploaded_file, NoEvent),
              [type |-> "start"])
    /\ UNCHANGED uploaded_file

\* The run st.rerun() asked for: the same widget values, no event.
Rerun ==
  /\ rerun
  /\ Finish(ScriptRun(Session, start_location, uploaded_file, NoEvent),
            [type |-> "rerun"])
  /\ UNCHANGED <<start_location, uploaded_file>>

Next ==
  \/ TypeDestination
  \/ ClickAdd
  \/ ClickClear
  \/ Upload
  \/ RemoveFile
  \/ ClickDelete
  \/ ClickConfirm
  \/ ClickOptimize
  \/ SetStartLocation
  \/ Rerun

Spec == Init /\ [][Next]_vars

\* ------------------------------------------------------------------------
\* The three functions called on their own, on inputs drawn from bounded sets
\* ------------------------------------------------------------------------
SessionIdle ==
  UNCHANGED <<destinations, optimized_route_data, map_url, new_dest_input,
              addresses_to_select, start_location, uploaded_file, rerun, msgs,
              requested, event>>

\* ---- read_addresses_from_excel ----
CellValues ==
  { Num(42),
    [t |-> "none", v |-> 0],
    Str(<<"a", "b", "c", "1", "shi">>),                 \* 5 characters, keyword
    Str(<<"a", "b", "c", "1", "2", "shi">>),            \* 6 characters, keyword
    Str(<<"chou", "a", "me", "ban", "b", "chi", "-">>), \* 7 characters, no keyword
    Str(<<"1", "chou", "me", "2", "-", "a">>) }         \* 6 characters, 2-character keyword

\* The sheets of r rows and c columns
Sheets(r, c) == [1..r -> [1..c -> CellValues]]

Documents ==
  { [ok |-> FALSE, rows |-> << >>], [ok |-> TRUE, rows |-> << >>] } \cup
  { [ok |-> TRUE, rows |-> rows] :
      rows \in UNION { Sheets(shape[1], shape[2]) :
                         shape \in { sh \in (1..MaxCells) \X (1..MaxCells) :
                                       sh[1] * sh[2] <= MaxCells } } }

InitExtract ==
  /\ SessionInit
  /\ call \in { [fn |-> "read_addresses_from_excel", file_content |-> d] :
                  d \in Documents }
  /\ ret = Pending

CallExtract ==
  /\ call.fn = "read_addresses_from_excel"
  /\ ret = Pending
  /\ ret' = read_addresses_from_excel(call.file_content)
  /\ UNCHANGED call
  /\ SessionIdle

SpecExtract == InitExtract /\ [][CallExtract]_vars

\* ---- get_optimized_route_data ----
LegDistances == {0, 49, 50, 149, 150, 250}
LegDurations == {0, 29, 30, 90, 150}

LegValues ==
  { Leg(PlaceA, PlaceB, m, s) : m \in LegDistances, s \in LegDurations }

LegLists == UNION { [1..n -> LegValues] : n \in 0..MaxLegs }

RouteResponses ==
  { [kind |-> "transport_error"],
    [kind |-> "json", status |-> "ZERO_RESULTS", legs |-> << >>] } \cup
  { [kind |-> "json", status |-> "OK", legs |-> legs] : legs \in LegLists }

InitRoute ==
  /\ SessionInit
  /\ call \in { [fn |-> "get_optimized_route_data", origin |-> DefaultStart,
                 destinations |-> d, response |-> r] :
                  d \in { << >>, <<SmallAddress1>> }, r \in RouteResponses }
  /\ ret = Pending

CallRoute ==
  /\ call.fn = "get_optimized_route_data"
  /\ ret = Pending
  /\ ret' = get_optimized_route_data(call.origin, call.destinations, call.response)
  /\ UNCHANGED call
  /\ SessionIdle

SpecRoute == InitRoute /\ [][CallRoute]_vars

\* ---- open_in_Maps ----
Places == {PlaceA, PlaceB, PlaceC}

SegmentValues ==
  { [from |-> a, to |-> b, distance |-> 12, time |-> 3] : a \in Places, b \in Places }

SegmentLists == UNION { [1..n -> SegmentValues] : n \in 0..MaxSegs }

InitMap ==
  /\ SessionInit
  /\ call \in { [fn |-> "open_in_Maps", origin |-> DefaultStart, segments |-> segs] :
                  segs \in SegmentLists }
  /\ ret = Pending

CallMap ==
  /\ call.fn = "open_in_Maps"
  /\ ret = Pending
  /\ ret' = open_in_Maps(call.origin, call.segments)
  /\ UNCHANGED call
  /\ SessionIdle

SpecMap == InitMap /\ [][CallMap]_vars

\* ------------------------------------------------------------------------
\* Properties
\* ------------------------------------------------------------------------
RouteUnchanged ==
  /\ optimized_route_data' = optimized_route_data
  /\ map_url' = map_url

FailedOptimize ==
  event.type = "optimize" /\ msgs \cap {"route_failed", "request_error"} # {}

\* C1: an optimize action whose provider call fails (status other than
\* "OK", or a transport failure), taken while a route summary is stored,
\* shows an error and leaves the stored summary and the stored map URL as
\* they were.
C1_FailedOptimizeKeepsRoute ==
  [][ (optimized_route_data # None /\ FailedOptimize')
        => RouteUnchanged ]_vars

C4_ClearEmpties ==
  event.type = "clear"
    => /\ destinations = << >>
       /\ optimized_route_data = None
       /\ map_url = None

RECURSIVE RowMajor(_)
\* The cells of a sheet in row-major order
RowMajor(rows) ==
  IF rows = << >> THEN << >> ELSE Head(rows) \o RowMajor(Tail(rows))

KeywordSet == { Keywords[k] : k \in 1..Len(Keywords) }

LooksLikeAddress(cell) ==
  /\ cell.t = "str"
  /\ Len(cell.v) > 5
  /\ \E i \in 1..Len(cell.v) : \E j \in i..Len(cell.v) :
       SubSeq(cell.v, i, j) \in KeywordSet

Extracted ==
  call.fn = "read_addresses_from_excel" /\ ret # Pending /\ call.file_content.ok

\* C5: for a document that parses, the extractor returns exactly the cell
\* values that are text, longer than 5 characters and contain a keyword, in
\* row-major order, verbatim, duplicates kept.
C5_ExtractorExact ==
  Extracted =>
    LET kept == SelectSeq(RowMajor(call.file_content.rows), LooksLikeAddress)
    IN ret.value = List([k \in 1..Len(kept) |-> kept[k].v])

\* C5 happens: a sheet of four cells gave the same address twice and two
\* cells were left out.
C5_Witness ==
  /\ Extracted
  /\ Len(RowMajor(call.file_content.rows)) = 4
  /\ Len(ret.value.list) = 2
  /\ ret.value.list[1] = ret.value.list[2]

RECURSIVE SumTo(_, _, _)
\* legs[1][field] + ... + legs[n][field]
SumTo(legs, field, n) ==
  IF n = 0 THEN 0 ELSE legs[n][field] + SumTo(legs, field, n - 1)

Answered ==
  /\ call.fn = "get_optimized_route_data"
  /\ ret # Pending
  /\ call.destinations # << >>
  /\ call.response.kind = "json"
  /\ call.response.status = "OK"

\* C6: for a response with status "OK", the total distance is
\* round(sum of the legs' meters / 100) / 10 (here in tenths of a kilometre)
\* and the total time is round(sum of the legs' seconds / 60): the rounded
\* sum, not the sum of the rounded segment values.
C6_TotalsAreRoundedSums ==
  Answered =>
    LET legs == call.response.legs
    IN /\ ret.value # None
       /\ ret.value.total_distance = RoundDiv(SumTo(legs, "distance", Len(legs)), 100)
       /\ ret.value.total_time = RoundDiv(SumTo(legs, "duration", Len(legs)), 60)

\* C6 happens: a two-leg response whose total distance differs from the sum
\* of its segments' distances.
C6_Witness ==
  /\ Answered
  /\ Len(ret.value.segments) = 2
  /\ ret.value.total_distance #
       ret.value.segments[1].distance + ret.value.segments[2].distance

Built == call.fn = "open_in_Maps" /\ ret # Pending

\* C7: for a non-empty segment list the URL's origin is the first segment's
\* 'from', its waypoints are the 'to' of every segment but the last, in
\* order and joined by '|' (none for a single segment), and its destination
\* is the last segment's 'to'; for an empty list there is no URL.
C7_MapLinkParameters ==
  Built =>
    LET segs == call.segments
        n == Len(segs)
    IN IF n = 0 THEN ret = None
       ELSE /\ ret # None
            /\ unquote(ret.origin) = segs[1].from
            /\ unquote(ret.waypoints) = Join([i \in 1..(n - 1) |-> segs[i].to], "|")
            /\ unquote(ret.destination) = segs[n].to
            /\ (n = 1 => ret.waypoints = << >>)

\* C7 happens: a URL was built from three segments with different stops.
C7_Witness ==
  /\ Built
  /\ Len(call.segments) = 3
  /\ call.segments[1].to # call.segments[2].to
  /\ ret.waypoints # << >>

\* C8: the stored summary and map URL change only on an optimize action or
\* a clear action; adding, appending and deleting destinations leave them.
C8_ListEditsKeepRoute ==
  [][ ~RouteUnchanged => event'.type \in {"optimize", "clear"} ]_vars

\* C8 happens: a destination was deleted while a route and its URL were
\* stored.
C8_Witness ==
  /\ event.type = "delete"
  /\ optimized_route_data # None
  /\ map_url # None

\* C9: after the upload of a file that yields 1..23 addresses, the runs
\* that st.rerun() asks for, with the uploader still holding the file, do
\* not append the addresses again.
C9_UploadAppendsOnce ==
  [][ (event'.type = "rerun" /\ uploaded_file # NoFile)
        => destinations' = destinations ]_vars

\* C10: at the end of every run, a stored map URL goes with a stored
\* summary and is the URL built from that summary's segments.
C10_MapUrlMatchesSummary ==
  map_url # None
    => /\ optimized_route_data # None
       /\ map_url = open_in_Maps(start_location, optimized_route_data.segments)

====
